---- MODULE Spec2Model ----
(***************************************************************************)
(* A model of the date-resolution pipelines of the repository:             *)
(*   - src/verifyparallel.py: local extraction, key selection, sampling,   *)
(*     parallel_lookup over a thread pool, the shared wiki_cache, the two  *)
(*     Wikipedia tiers (narrow, broad) and the per-tier merge;             *)
(*   - src/Q4fgh.py ("step 4c date.py"): the sequential pipeline with a    *)
(*     Wikipedia tier and a DBpedia tier merged through DataFrame.merge.   *)
(*                                                                         *)
(* Dates are the integers yyyymmdd: the code's "%Y-%m-%d" strings compare  *)
(* (==, min) exactly as these integers do for four-digit years.            *)
(* A text (a description, a page summary) is represented by what the       *)
(* matchers of the code find in it; the libraries datefinder, dateparser,  *)
(* wikipedia and SPARQLWrapper are the environment.                        *)
(***************************************************************************)
EXTENDS Integers, Sequences, FiniteSets, TLC

\* ------------------------------------------------------------------ CONFIG
DEFAULT_DATE == 20250101
MIN_VALID_YEAR == 1800
MAX_VALID_YEAR == 2024
USE_BROADER_APPROACH == TRUE
MAX_WORKERS_NARROW == 10
MAX_WORKERS_BROAD == 8
SKIP_SHORT_LOCATIONS == TRUE
MIN_LOCATION_LENGTH == 10

\* ------------------------------------------------------------------ bounds
\* Rows of the input table.
NRows == 3
\* Longest key list handed directly to parallel_lookup.
MaxLocs == 3
\* Largest max_workers handed directly to parallel_lookup.
MaxPool == 2

\* A missing value of a location cell (pandas NaN in an object column).
NaN == "NaN"
\* A missing value of a date cell (the NaN a left merge leaves in an unmatched row).
NaNDate == 0

Min(a, b) == IF a <= b THEN a ELSE b

RECURSIVE MinOf(_)
\* min(possible_dates) of a non-empty list.
MinOf(s) == IF Len(s) = 1 THEN s[1] ELSE Min(s[1], MinOf(Tail(s)))

Year(d) == d \div 10000

\* ------------------------------------------------------------------- texts
\* A text is the record of what each matcher finds in it (<<>>: no match).
Text(df, dp) ==
    [blank |-> FALSE, ordinal |-> <<>>, month_year |-> <<>>, explicit_year |-> <<>>,
     bare_year |-> <<>>, df_dates |-> df, parsed |-> dp]

BlankText == [Text(<<>>, <<>>) EXCEPT !.blank = TRUE]
NoDateText == Text(<<>>, <<>>)
\* "The fire occurred in 1923 at the old mill"
Text1923 == [Text(<<19230101>>, <<>>) EXCEPT !.explicit_year = <<1923>>, !.bare_year = <<1923>>]
\* "Founded in 1850; the page was updated 2023"
Text1850 == [Text(<<20230101, 18500101>>, <<>>) EXCEPT !.explicit_year = <<1850>>, !.bare_year = <<1850>>]
\* "Opened in 1901"
Text1901 == [Text(<<19010101>>, <<>>) EXCEPT !.explicit_year = <<1901>>, !.bare_year = <<1901>>]
\* "A settlement since 1700" (before MIN_VALID_YEAR)
Text1700 == [Text(<<17000101>>, <<17000101>>) EXCEPT !.explicit_year = <<1700>>]

validate_year_in_range(date_str) ==
    MIN_VALID_YEAR <= Year(date_str) /\ Year(date_str) <= MAX_VALID_YEAR

RECURSIVE Insert(_, _)
Insert(x, s) ==
    IF s = <<>> THEN <<x>>
    ELSE IF x <= s[1] THEN <<x>> \o s ELSE <<s[1]>> \o Insert(x, Tail(s))

RECURSIVE Sorted(_)
\* sorted(df_dates_naive)
Sorted(s) == IF s = <<>> THEN <<>> ELSE Insert(s[1], Sorted(Tail(s)))

RECURSIVE FirstValid(_)
\* The first date of the list whose year is in range, as a list of at most one.
FirstValid(s) ==
    IF s = <<>> THEN <<>>
    ELSE IF validate_year_in_range(s[1]) THEN <<s[1]>> ELSE FirstValid(Tail(s))

\* verifyparallel.py's extract_date_from_text.
extract_date_from_text(text) ==
    IF text.blank THEN DEFAULT_DATE
    ELSE IF FirstValid(Sorted(text.df_dates)) # <<>>
         THEN FirstValid(Sorted(text.df_dates))[1]
    ELSE IF text.parsed # <<>> /\ validate_year_in_range(text.parsed[1])
         THEN text.parsed[1]
    ELSE DEFAULT_DATE

\* --------------------------------------------------------------- locations
\* The location strings of the rows; TLA+ strings have no characters, so the
\* two measures should_skip_location takes of a string are tabulated.
Millbrook == "Millbrook Township"
RavenHill == "Raven Hill Inn"
ShortLoc == "X"
LongKeys == {Millbrook, RavenHill}
Locations == LongKeys \cup {ShortLoc, NaN}
\* Two words but short, and long but one word.
ElmSt == "Elm St"
Philadelphia == "Philadelphia"
AllLocations == Locations \cup {ElmSt, Philadelphia}

\* len(loc.strip().split())
TokenCount(loc) ==
    CASE loc \in {ShortLoc, Philadelphia} -> 1
      [] loc \in {Millbrook, ElmSt} -> 2
      [] OTHER -> 3
\* len(loc.strip())
StrippedLen(loc) ==
    CASE loc = ShortLoc -> 1
      [] loc = ElmSt -> 6
      [] loc = Philadelphia -> 12
      [] loc = Millbrook -> 18
      [] OTHER -> 14

\* Only the single-word test.
SkipSingleWord(loc) == loc = NaN \/ TokenCount(loc) < 2

should_skip_location(loc) ==
    \/ loc = NaN
    \/ TokenCount(loc) < 2
    \/ StrippedLen(loc) < MIN_LOCATION_LENGTH

\* --------------------------------------------------------------- Wikipedia
\* The external service as the adapters see it: wikipedia.search(query) gives
\* a ranked list of titles, wikipedia.page(title) a page or an exception.
\* A search result is the list of what page(title) gives for each title.
Text1801 == [Text(<<18010101>>, <<>>) EXCEPT !.explicit_year = <<1801>>, !.bare_year = <<1801>>]

Page(text) == [kind |-> "page", summary |-> text]
\* A page whose title or summary marks it as a disambiguation page.
DisambiguationPage == [kind |-> "disambiguation", summary |-> NoDateText]
\* A title for which wikipedia.page raises (PageError, DisambiguationError, ...).
PageError == [kind |-> "error", summary |-> NoDateText]

generate_narrow_search_terms(location) ==
    << <<"history", location>>, <<"history of", location>>, <<"founding", location>>,
       <<"historical", location>>, <<"establishment", location>> >>

\* The query of the broad approach is the raw location.
BroadQuery(location) == <<"raw", location>>

WikipediaSearch(query) ==
    IF query[2] = Millbrook THEN
        CASE query[1] = "history" -> <<DisambiguationPage, Page(NoDateText), Page(Text1801)>>
          [] query[1] = "history of" -> <<Page(Text1901), Page(Text1850), Page(Text1801)>>
          [] query[1] = "founding" -> <<Page(Text1801)>>
          [] query[1] = "raw" -> <<Page(Text1901), PageError>>
          [] OTHER -> <<>>
    ELSE IF query[2] = RavenHill THEN
        CASE query[1] = "history of" -> <<PageError, Page(Text1700)>>
          [] query[1] = "raw" -> <<DisambiguationPage, Page(Text1923)>>
          [] OTHER -> <<>>
    ELSE <<>>

\* Every result of the search.
TopAll(results) == results

\* results[:2]
Top2(results) == SubSeq(results, 1, Min(2, Len(results)))

RECURSIVE PageDates(_)
\* The inner loop over the titles of one query: the dates it appends.
PageDates(pages) ==
    IF pages = <<>> THEN <<>>
    ELSE LET page == pages[1]
             found == extract_date_from_text(page.summary)
         IN  IF page.kind = "page" /\ found # DEFAULT_DATE
             THEN <<found>> \o PageDates(Tail(pages))
             ELSE PageDates(Tail(pages))

\* One query of an adapter; down: the search call raised.
QueryDates(query, down) ==
    IF down THEN <<>> ELSE PageDates(Top2(WikipediaSearch(query)))

RECURSIVE NarrowLoop(_, _, _)
\* The loop of narrow_wikipedia_lookup_one over its queries from index q on:
\* possible_dates when it ends (it breaks at the first query that found a date).
NarrowLoop(location, q, down) ==
    IF q > Len(generate_narrow_search_terms(location)) THEN <<>>
    ELSE LET dates == QueryDates(generate_narrow_search_terms(location)[q], q \in down)
         IN  IF dates # <<>> THEN dates ELSE NarrowLoop(location, q + 1, down)

\* possible_dates of broad_wikipedia_lookup_one.
BroadDates(location, down) == QueryDates(BroadQuery(location), 1 \in down)

\* The value a lookup stores and returns for its possible_dates.
BestDate(possible_dates) ==
    IF possible_dates # <<>> THEN MinOf(possible_dates) ELSE DEFAULT_DATE

\* ------------------------------------------------------------------- state
VARIABLES
    df,                   \* the DataFrame, as a record of columns (<<>>: no such column yet)
    pc,                   \* where the pipeline driver (main) stands
    tier,                 \* 1: narrow tier, 2: broad tier, 0: a direct call of parallel_lookup
    frac,                 \* SAMPLE_MISSING_FRAC as <<numerator, denominator>>
    stable,               \* TRUE: every call of a service answers; FALSE: a call may raise
    missing_locs,         \* missing_locs / missing_locs2 of the current tier
    missing_locs_sampled, \* missing_locs_sampled / missing_locs2_sampled
    locations,            \* parallel_lookup's argument
    lookup_func,          \* parallel_lookup's argument: "narrow", "broad" or "mock"
    max_workers,          \* parallel_lookup's argument
    fut,                  \* the futures of the call, one per element of locations
    results_map,          \* parallel_lookup's results_map
    narrow_results,
    broad_results,
    wiki_cache,           \* the module-level cache
    output,               \* the files written by df.to_csv, in order (<<>>: nothing written)
    stats,                \* the summary statistics reported (<<>>: none yet)
    wiki_rows,            \* Q4fgh.py: wiki_rows of run_wikipedia_approach
    dbpedia_rows          \* Q4fgh.py: dbpedia_rows of run_dbpedia_approach

sequential == <<wiki_rows, dbpedia_rows>>
driver == <<df, pc, tier, frac, stable, missing_locs, missing_locs_sampled,
            narrow_results, broad_results, output, stats, sequential>>
call == <<locations, lookup_func, max_workers, fut, results_map>>
vars == <<driver, call, wiki_cache>>

\* dict.get(key, default)
Get(map, key, default) == IF key \in DOMAIN map THEN map[key] ELSE default

\* map[key] = value
Put(map, key, value) == (key :> value) @@ map

Range(s) == {s[i] : i \in DOMAIN s}

\* ------------------------------------------------- selection and sampling
\* The list as it is, repeated values kept.
NoUnique(s) == s

RECURSIVE Unique(_)
\* Series.unique(): the distinct values in order of first appearance.
Unique(s) ==
    IF s = <<>> THEN <<>>
    ELSE LET u == Unique(SubSeq(s, 1, Len(s) - 1))
         IN  IF s[Len(s)] \in Range(u) THEN u ELSE Append(u, s[Len(s)])

RECURSIVE MaskedLocations(_, _, _)
\* df.loc[mask, "location"].dropna() for mask = (dates == DEFAULT_DATE), rows i..
MaskedLocations(locs, dates, i) ==
    IF i > Len(locs) THEN <<>>
    ELSE IF dates[i] = DEFAULT_DATE /\ locs[i] # NaN
         THEN <<locs[i]>> \o MaskedLocations(locs, dates, i + 1)
         ELSE MaskedLocations(locs, dates, i + 1)

KeepLocation(loc) == ~(SKIP_SHORT_LOCATIONS /\ should_skip_location(loc))

\* The keys a tier selects from the rows whose prior date is the default.
SelectMissing(locs, dates) ==
    SelectSeq(Unique(MaskedLocations(locs, dates, 1)), KeepLocation)

\* SAMPLE_MISSING_FRAC < 1.0
FracBelowOne(f) == f[1] < f[2]

SampleSizeCeil(n, f) == (n * f[1] + f[2] - 1) \div f[2]

\* int(len(series) * SAMPLE_MISSING_FRAC)
SampleSize(n, f) == (n * f[1]) \div f[2]

RECURSIVE SubLists(_, _)
\* The sub-lists of n elements of s. Series.sample(n, random_state=...) draws n
\* distinct rows; which ones the seed picks is left open.
SubLists(s, n) ==
    IF n = 0 THEN {<<>>}
    ELSE IF Len(s) < n THEN {}
    ELSE {<<s[1]>> \o t : t \in SubLists(Tail(s), n - 1)} \cup SubLists(Tail(s), n)

\* The values missing_locs_sampled can take.
Samples(locs, f) ==
    IF FracBelowOne(f) THEN SubLists(locs, SampleSize(Len(locs), f)) ELSE {locs}

\* --------------------------------------------------------- parallel_lookup
\* A future of the pool: st is "pending" (submitted, not started), "searching"
\* (lookup_func runs, past its cache check), "storing" (the searches are over,
\* the cache write is still to come) or "done"; hit: the cache check found an
\* entry; searched: the lookup went to Wikipedia; raised: lookup_func raised;
\* collected: the as_completed loop has taken the result.
NewFuture ==
    [st |-> "pending", hit |-> FALSE, searched |-> FALSE, possible_dates |-> <<>>,
     raised |-> FALSE, val |-> DEFAULT_DATE, collected |-> FALSE]

InProgress == {i \in DOMAIN fut : fut[i].st \in {"searching", "storing"}}

PoolUnbounded == TRUE

\* ThreadPoolExecutor(max_workers): a work item starts only on a free worker.
PoolHasRoom == Cardinality(InProgress) < max_workers

RunOneArgLast(i) == locations[Len(locations)]

\* run_one(loc): the location future i was submitted with.
RunOneArg(i) == locations[i]

\* The sets of failing search calls (by query index) a lookup may meet.
Outages(n) == IF stable THEN {{}} ELSE SUBSET (1..n)

\* What a mock lookup_func may do: return a date, or raise (and leave no value).
MockOutcomes ==
    {[raised |-> FALSE, val |-> 19230101], [raised |-> TRUE, val |-> NaNDate]}

\* The call itself: results_map = {}, the executor, one submit per location.
EnterParallelLookup(locs, func, workers) ==
    /\ locations' = locs
    /\ lookup_func' = func
    /\ max_workers' = workers
    /\ fut' = [i \in DOMAIN locs |-> NewFuture]
    /\ results_map' = <<>>
    /\ pc' = "pl"

\* A worker takes future i and lookup_func begins: the cache check of the two
\* Wikipedia lookups (a mock lookup_func has none).
Start(i) ==
    /\ pc = "pl"
    /\ fut[i].st = "pending"
    /\ PoolHasRoom
    /\ fut' = [fut EXCEPT ![i] =
                 IF lookup_func # "mock" /\ RunOneArg(i) \in DOMAIN wiki_cache
                 THEN [@ EXCEPT !.st = "done", !.hit = TRUE, !.val = wiki_cache[RunOneArg(i)]]
                 ELSE [@ EXCEPT !.st = "searching"]]
    /\ UNCHANGED <<driver, locations, lookup_func, max_workers, results_map, wiki_cache>>

\* The values possible_dates can have when the searches of a lookup are over.
SearchResults(func, location) ==
    IF func = "narrow"
    THEN {NarrowLoop(location, 1, down) :
              down \in Outages(Len(generate_narrow_search_terms(location)))}
    ELSE {BroadDates(location, down) : down \in Outages(1)}

\* The searches of one Wikipedia lookup, from its first query to possible_dates.
Search(i) ==
    /\ pc = "pl"
    /\ fut[i].st = "searching"
    /\ lookup_func \in {"narrow", "broad"}
    /\ \E dates \in SearchResults(lookup_func, RunOneArg(i)) :
          fut' = [fut EXCEPT ![i] =
                    [@ EXCEPT !.st = "storing", !.searched = TRUE, !.possible_dates = dates]]
    /\ UNCHANGED <<driver, locations, lookup_func, max_workers, results_map, wiki_cache>>

\* The end of a Wikipedia lookup: the cache write and the return.
Store(i) ==
    /\ pc = "pl"
    /\ fut[i].st = "storing"
    /\ wiki_cache' = Put(wiki_cache, RunOneArg(i), BestDate(fut[i].possible_dates))
    /\ fut' = [fut EXCEPT ![i] =
                 [@ EXCEPT !.st = "done", !.val = BestDate(fut[i].possible_dates),
                           !.possible_dates = <<>>]]
    /\ UNCHANGED <<driver, locations, lookup_func, max_workers, results_map>>

\* A mock lookup_func runs to its end.
MockRun(i) ==
    /\ pc = "pl"
    /\ fut[i].st = "searching"
    /\ lookup_func = "mock"
    /\ \E out \in MockOutcomes :
          fut' = [fut EXCEPT ![i] =
                    [@ EXCEPT !.st = "done", !.raised = out.raised, !.val = out.val]]
    /\ UNCHANGED <<driver, locations, lookup_func, max_workers, results_map, wiki_cache>>

\* The future's value whether or not it raised.
CollectedValueNone(f) == f.val

\* What the as_completed loop records for a finished future.
CollectedValue(f) == IF f.raised THEN DEFAULT_DATE ELSE f.val

\* One round of the as_completed loop, for a finished future not yet taken.
Collect(i) ==
    /\ pc = "pl"
    /\ fut[i].st = "done"
    /\ ~fut[i].collected
    /\ results_map' = Put(results_map,
                           IF fut[i].raised THEN locations[i] ELSE RunOneArg(i),
                           CollectedValue(fut[i]))
    /\ fut' = [fut EXCEPT ![i].collected = TRUE]
    /\ UNCHANGED <<driver, locations, lookup_func, max_workers, wiki_cache>>

FirstCollected == \E i \in DOMAIN fut : fut[i].collected

\* Every future has been started; some may still be running.
AllStarted == \A i \in DOMAIN fut : fut[i].st # "pending"

\* The loop has taken every future and the executor has shut down.
AllCollected == \A i \in DOMAIN fut : fut[i].collected

\* return results_map
Return ==
    /\ pc = "pl"
    /\ AllCollected
    /\ pc' = "ret"
    /\ UNCHANGED <<df, tier, frac, stable, missing_locs, missing_locs_sampled,
                   narrow_results, broad_results, output, stats, sequential, call, wiki_cache>>

\* ------------------------------------------------ main of verifyparallel.py
Descriptions == {NoDateText, Text1923}
Fractions == {<<1, 2>>, <<1, 1>>}

\* The columns an input file can have: NRows cells each, or no such column.
LocationColumns == [1..NRows -> Locations] \cup {<<>>}
DescriptionColumns == [1..NRows -> Descriptions] \cup {<<>>}

RECURSIVE MapExtract(_)
\* df["description"].progress_apply(extract_date_from_text)
MapExtract(texts) ==
    IF texts = <<>> THEN <<>>
    ELSE <<extract_date_from_text(texts[1])>> \o MapExtract(Tail(texts))

MergeDateAlways(prior, tier_results, location) == Get(tier_results, location, DEFAULT_DATE)

\* The lambda of a merge: the tier's result for the row's location where the
\* prior date is the default, the prior date elsewhere.
MergeDate(prior, tier_results, location) ==
    IF prior = DEFAULT_DATE THEN Get(tier_results, location, DEFAULT_DATE) ELSE prior

\* df.apply(lambda row: ..., axis=1)
MergeColumn(priors, tier_results) ==
    [i \in DOMAIN priors |-> MergeDate(priors[i], tier_results, df.location[i])]

\* The date column a tier selects on and merges into.
PriorColumn == IF tier = 1 THEN df.LocalDate ELSE df.NarrowWikiDate

Init ==
    /\ \E locs \in LocationColumns, texts \in DescriptionColumns :
          df = [location |-> locs, description |-> texts, LocalDate |-> <<>>,
                NarrowWikiDate |-> <<>>, BroadWikiDate |-> <<>>, FinalDate |-> <<>>]
    /\ pc = "extract"
    /\ tier = 1
    /\ frac \in Fractions
    /\ stable \in BOOLEAN
    /\ missing_locs = <<>>
    /\ missing_locs_sampled = <<>>
    /\ locations = <<>>
    /\ lookup_func = "narrow"
    /\ max_workers = MAX_WORKERS_NARROW
    /\ fut = <<>>
    /\ results_map = <<>>
    /\ narrow_results = <<>>
    /\ broad_results = <<>>
    /\ wiki_cache = <<>>
    /\ output = <<>>
    /\ stats = <<>>
    /\ wiki_rows = <<>>
    /\ dbpedia_rows = <<>>

\* df["description"] of a table with no such column raises KeyError, which
\* nothing catches (line 211 here, line 422 in Q4fgh.py).
KeyErrorDescription ==
    /\ pc \in {"extract", "q_extract"}
    /\ df.description = <<>>
    /\ pc' = "crashed"
    /\ UNCHANGED <<df, tier, frac, stable, missing_locs, missing_locs_sampled,
                   narrow_results, broad_results, output, stats, sequential, call, wiki_cache>>

\* df.loc[mask, "location"] of a table with no such column raises KeyError
\* (line 216 here, line 310 in Q4fgh.py).
KeyErrorLocation ==
    /\ pc \in {"select", "q_wiki"}
    /\ df.location = <<>>
    /\ pc' = "crashed"
    /\ UNCHANGED <<df, tier, frac, stable, missing_locs, missing_locs_sampled,
                   narrow_results, broad_results, output, stats, sequential, call, wiki_cache>>

ExtractLocal ==
    /\ pc = "extract"
    /\ df.description # <<>>
    /\ df' = [df EXCEPT !.LocalDate = MapExtract(df.description)]
    /\ pc' = "select"
    /\ UNCHANGED <<tier, frac, stable, missing_locs, missing_locs_sampled,
                   narrow_results, broad_results, output, stats, sequential, call, wiki_cache>>

Select ==
    /\ pc = "select"
    /\ df.location # <<>>
    /\ missing_locs' = SelectMissing(df.location, PriorColumn)
    /\ pc' = "sample"
    /\ UNCHANGED <<df, tier, frac, stable, missing_locs_sampled,
                   narrow_results, broad_results, output, stats, sequential, call, wiki_cache>>

Sample ==
    /\ pc = "sample"
    /\ missing_locs_sampled' \in Samples(missing_locs, frac)
    /\ pc' = "lookup"
    /\ UNCHANGED <<df, tier, frac, stable, missing_locs,
                   narrow_results, broad_results, output, stats, sequential, call, wiki_cache>>

\* if len(missing_locs_sampled) > 0: parallel_lookup(...)
Lookup ==
    /\ pc = "lookup"
    /\ Len(missing_locs_sampled) > 0
    /\ EnterParallelLookup(missing_locs_sampled,
                           IF tier = 1 THEN "narrow" ELSE "broad",
                           IF tier = 1 THEN MAX_WORKERS_NARROW ELSE MAX_WORKERS_BROAD)
    /\ UNCHANGED <<df, tier, frac, stable, missing_locs, missing_locs_sampled,
                   narrow_results, broad_results, output, stats, sequential, wiki_cache>>

\* else: narrow_results = {} (broad_results = {})
NoLookup ==
    /\ pc = "lookup"
    /\ Len(missing_locs_sampled) = 0
    /\ narrow_results' = IF tier = 1 THEN <<>> ELSE narrow_results
    /\ broad_results' = IF tier = 2 THEN <<>> ELSE broad_results
    /\ pc' = "merge"
    /\ UNCHANGED <<df, tier, frac, stable, missing_locs, missing_locs_sampled,
                   output, stats, sequential, call, wiki_cache>>

\* narrow_results = parallel_lookup(...) (broad_results = ...)
Returned ==
    /\ pc = "ret"
    /\ tier \in {1, 2}
    /\ narrow_results' = IF tier = 1 THEN results_map ELSE narrow_results
    /\ broad_results' = IF tier = 2 THEN results_map ELSE broad_results
    /\ pc' = "merge"
    /\ UNCHANGED <<df, tier, frac, stable, missing_locs, missing_locs_sampled,
                   output, stats, sequential, call, wiki_cache>>

\* Merge narrow results, and FinalDate when the broad approach is off.
MergeNarrow ==
    /\ pc = "merge"
    /\ tier = 1
    /\ LET merged == MergeColumn(df.LocalDate, narrow_results)
       IN  IF USE_BROADER_APPROACH
           THEN /\ df' = [df EXCEPT !.NarrowWikiDate = merged]
                /\ tier' = 2
                /\ pc' = "select"
           ELSE /\ df' = [df EXCEPT !.NarrowWikiDate = merged, !.FinalDate = merged]
                /\ tier' = 1
                /\ pc' = "stats"
    /\ UNCHANGED <<frac, stable, missing_locs, missing_locs_sampled,
                   narrow_results, broad_results, output, stats, sequential, call, wiki_cache>>

\* Merge broad results; FinalDate = BroadWikiDate.
MergeBroad ==
    /\ pc = "merge"
    /\ tier = 2
    /\ LET merged == MergeColumn(df.NarrowWikiDate, broad_results)
       IN  df' = [df EXCEPT !.BroadWikiDate = merged, !.FinalDate = merged]
    /\ pc' = "stats"
    /\ UNCHANGED <<tier, frac, stable, missing_locs, missing_locs_sampled,
                   narrow_results, broad_results, output, stats, sequential, call, wiki_cache>>

\* len(recognized): the rows whose final date is not the default.
RecognizedCount(dates) ==
    Cardinality({i \in DOMAIN dates : dates[i] # DEFAULT_DATE})

\* len(valid_recognized): the recognized rows whose year is in range.
ValidRecognizedCount(dates) ==
    Cardinality({i \in DOMAIN dates :
                    dates[i] # DEFAULT_DATE /\ validate_year_in_range(dates[i])})

\* The quick stats of main.
Stats ==
    /\ pc = "stats"
    /\ stats' = [total |-> Len(df.FinalDate),
                 recognized_count |-> RecognizedCount(df.FinalDate),
                 valid_recognized_count |-> ValidRecognizedCount(df.FinalDate)]
    /\ pc' = "save"
    /\ UNCHANGED <<df, tier, frac, stable, missing_locs, missing_locs_sampled,
                   narrow_results, broad_results, output, sequential, call, wiki_cache>>

\* df.to_csv(name): the table as it stands is written to the file.
ToCsv(name) == output' = Append(output, [name |-> name, table |-> df])

\* df.to_csv(output_file)
Save ==
    /\ pc = "save"
    /\ ToCsv("haunted_places_final_parallel_4000.tsv")
    /\ pc' = "done"
    /\ UNCHANGED <<df, tier, frac, stable, missing_locs, missing_locs_sampled,
                   narrow_results, broad_results, stats, sequential, call, wiki_cache>>

Next ==
    \/ KeyErrorDescription
    \/ ExtractLocal
    \/ KeyErrorLocation
    \/ Select
    \/ Sample
    \/ Lookup
    \/ NoLookup
    \/ \E i \in DOMAIN fut : Start(i)
    \/ \E i \in DOMAIN fut : Search(i)
    \/ \E i \in DOMAIN fut : Store(i)
    \/ \E i \in DOMAIN fut : Collect(i)
    \/ Return
    \/ Returned
    \/ MergeNarrow
    \/ MergeBroad
    \/ Stats
    \/ Save

\* The pipeline of verifyparallel.py over every table of NRows rows.
Spec == Init /\ [][Next]_vars

\* --------------------------------------------- parallel_lookup called directly
\* parallel_lookup is a generic function of the module: any list of locations
\* (repeats included), any lookup_func, any max_workers. Wikipedia is taken as
\* it is in production, where a search may fail.
RECURSIVE ListsUpTo(_, _)
ListsUpTo(S, n) ==
    IF n = 0 THEN {<<>>}
    ELSE ListsUpTo(S, n - 1) \cup {Append(l, x) : l \in ListsUpTo(S, n - 1), x \in S}

\* The lists handed to a direct call. A pending future may start before any
\* other (Start), so a list stands for all its reorderings and only the lists
\* with the Millbrook entries first are taken.
CallLists ==
    {l \in ListsUpTo(LongKeys, MaxLocs) \ {<<>>} :
        \A i \in 1..(Len(l) - 1) : l[i] = RavenHill => l[i + 1] = RavenHill}

InitLookup ==
    /\ df = [location |-> <<>>, description |-> <<>>, LocalDate |-> <<>>,
             NarrowWikiDate |-> <<>>, BroadWikiDate |-> <<>>, FinalDate |-> <<>>]
    /\ pc = "call"
    /\ tier = 0
    /\ frac = <<1, 1>>
    /\ stable = FALSE
    /\ missing_locs = <<>>
    /\ missing_locs_sampled = <<>>
    /\ locations = <<>>
    /\ lookup_func = "narrow"
    /\ max_workers = 1
    /\ fut = <<>>
    /\ results_map = <<>>
    /\ narrow_results = <<>>
    /\ broad_results = <<>>
    /\ wiki_cache = <<>>
    /\ output = <<>>
    /\ stats = <<>>
    /\ wiki_rows = <<>>
    /\ dbpedia_rows = <<>>

DirectCall ==
    /\ pc = "call"
    /\ \E locs \in CallLists,
          func \in {"narrow", "broad", "mock"},
          workers \in 1..MaxPool :
          EnterParallelLookup(locs, func, workers)
    /\ UNCHANGED <<df, tier, frac, stable, missing_locs, missing_locs_sampled,
                   narrow_results, broad_results, output, stats, sequential, wiki_cache>>

NextLookup ==
    \/ DirectCall
    \/ \E i \in DOMAIN fut : Start(i)
    \/ \E i \in DOMAIN fut : Search(i)
    \/ \E i \in DOMAIN fut : MockRun(i)
    \/ \E i \in DOMAIN fut : Store(i)
    \/ \E i \in DOMAIN fut : Collect(i)
    \/ Return

SpecLookup == InitLookup /\ [][NextLookup]_vars

\* ---------------------------------------- Q4fgh.py, "step 4c date.py": main
\* extract_date_from_text of Q4fgh.py: the cascade of regular expressions,
\* then datefinder's first match; no year range is applied.
extract_date_from_text_4c(text) ==
    IF text.blank THEN DEFAULT_DATE
    ELSE IF text.ordinal # <<>> THEN text.ordinal[1]
    ELSE IF text.month_year # <<>> THEN text.month_year[1]
    ELSE IF text.explicit_year # <<>> THEN text.explicit_year[1] * 10000 + 101
    ELSE IF text.bare_year # <<>> THEN text.bare_year[1] * 10000 + 101
    ELSE IF text.df_dates # <<>> THEN text.df_dates[1]
    ELSE DEFAULT_DATE

RECURSIVE MapExtract4c(_)
\* df["description"].apply(extract_date_from_text)
MapExtract4c(texts) ==
    IF texts = <<>> THEN <<>>
    ELSE <<extract_date_from_text_4c(texts[1])>> \o MapExtract4c(Tail(texts))

\* The bindings DBpedia returns for the founding date of a label (LIMIT 1).
DbpediaBindings(place_name) ==
    IF place_name = RavenHill THEN <<Text(<<18990501>>, <<18990501>>)>> ELSE <<>>

\* The wiki_date of one location: DEFAULT_DATE when the search is empty or
\* anything raises, else the date of the summary of the first result.
WikiDates(loc) ==
    LET results == WikipediaSearch(BroadQuery(loc))
        answer == IF results = <<>> \/ results[1].kind = "error"
                  THEN DEFAULT_DATE
                  ELSE extract_date_from_text_4c(results[1].summary)
    IN  IF stable THEN {answer} ELSE {answer, DEFAULT_DATE}

\* query_dbpedia(place_name)
query_dbpedia(place_name) ==
    LET bindings == DbpediaBindings(place_name)
        answer == IF bindings # <<>>
                  THEN extract_date_from_text_4c(bindings[1])
                  ELSE DEFAULT_DATE
    IN  IF stable THEN {answer} ELSE {answer, DEFAULT_DATE}

\* df.loc[missing_mask, "location"].dropna().unique()
MissingLocations(locs, dates) == Unique(MaskedLocations(locs, dates, 1))

\* The rows list as the right side of df.merge(..., on="location", how="left"):
\* the value joined to a row, NaN for a location with no row in the list.
Joined(rows, location) ==
    IF \E j \in DOMAIN rows : rows[j].location = location
    THEN (CHOOSE r \in Range(rows) : r.location = location).date
    ELSE NaNDate

\* lambda row: row[tier column] if row[prior] == DEFAULT_DATE else row[prior]
MergeJoined(prior, joined) == IF prior = DEFAULT_DATE THEN joined ELSE prior

InitSeq ==
    /\ \E locs \in LocationColumns, texts \in DescriptionColumns :
          df = [location |-> locs, description |-> texts, HauntedPlacesDate |-> <<>>,
                wiki_date |-> <<>>, dbpedia_date |-> <<>>, FinalDate |-> <<>>]
    /\ pc = "q_convert"
    /\ tier = 1
    /\ frac = <<1, 1>>
    /\ stable \in BOOLEAN
    /\ missing_locs = <<>>
    /\ missing_locs_sampled = <<>>
    /\ locations = <<>>
    /\ lookup_func = "wikipedia"
    /\ max_workers = 1
    /\ fut = <<>>
    /\ results_map = <<>>
    /\ narrow_results = <<>>
    /\ broad_results = <<>>
    /\ wiki_cache = <<>>
    /\ output = <<>>
    /\ stats = <<>>
    /\ wiki_rows = <<>>
    /\ dbpedia_rows = <<>>

\* Step 1 of main: the input just read is written back as a TSV file.
ConvertSeq ==
    /\ pc = "q_convert"
    /\ ToCsv("haunted_places_initial.tsv")
    /\ pc' = "q_extract"
    /\ UNCHANGED <<df, tier, frac, stable, missing_locs, missing_locs_sampled,
                   narrow_results, broad_results, stats, sequential, call, wiki_cache>>

\* Step 2 of main.
ExtractSeq ==
    /\ pc = "q_extract"
    /\ df.description # <<>>
    /\ df' = [df EXCEPT !.HauntedPlacesDate = MapExtract4c(df.description)]
    /\ pc' = "q_wiki"
    /\ UNCHANGED <<tier, frac, stable, missing_locs, missing_locs_sampled,
                   narrow_results, broad_results, output, stats, sequential, call, wiki_cache>>

\* run_wikipedia_approach up to its loop.
WikiSelect ==
    /\ pc = "q_wiki"
    /\ df.location # <<>>
    /\ missing_locs' = MissingLocations(df.location, df.HauntedPlacesDate)
    /\ wiki_rows' = <<>>
    /\ pc' = "q_wiki_loop"
    /\ UNCHANGED <<df, tier, frac, stable, missing_locs_sampled,
                   narrow_results, broad_results, output, stats, dbpedia_rows, call, wiki_cache>>

\* One round of the loop over missing_locations.
WikiLookupOne ==
    /\ pc = "q_wiki_loop"
    /\ Len(wiki_rows) < Len(missing_locs)
    /\ LET loc == missing_locs[Len(wiki_rows) + 1]
       IN  \E d \in WikiDates(loc) :
              wiki_rows' = Append(wiki_rows, [location |-> loc, date |-> d])
    /\ UNCHANGED <<df, pc, tier, frac, stable, missing_locs, missing_locs_sampled,
                   narrow_results, broad_results, output, stats, dbpedia_rows, call, wiki_cache>>

\* df.merge(df_wiki, on="location", how="left") and the Final Date column.
WikiMerge ==
    /\ pc = "q_wiki_loop"
    /\ Len(wiki_rows) = Len(missing_locs)
    /\ wiki_rows # <<>>
    /\ LET joined == [i \in DOMAIN df.location |-> Joined(wiki_rows, df.location[i])]
       IN  df' = [df EXCEPT
                    !.wiki_date = joined,
                    !.FinalDate = [i \in DOMAIN joined |->
                                     MergeJoined(df.HauntedPlacesDate[i], joined[i])]]
    /\ tier' = 2
    /\ pc' = "q_dbpedia"
    /\ UNCHANGED <<frac, stable, missing_locs, missing_locs_sampled,
                   narrow_results, broad_results, output, stats, sequential, call, wiki_cache>>

\* pd.DataFrame([]) has no "location" column: the merge raises KeyError and
\* nothing catches it.
MergeKeyError ==
    /\ pc \in {"q_wiki_loop", "q_dbpedia_loop"}
    /\ missing_locs = <<>>
    /\ pc' = "crashed"
    /\ UNCHANGED <<df, tier, frac, stable, missing_locs, missing_locs_sampled,
                   narrow_results, broad_results, output, stats, sequential, call, wiki_cache>>

\* run_dbpedia_approach up to its loop.
DbpediaSelect ==
    /\ pc = "q_dbpedia"
    /\ missing_locs' = MissingLocations(df.location, df.FinalDate)
    /\ dbpedia_rows' = <<>>
    /\ pc' = "q_dbpedia_loop"
    /\ UNCHANGED <<df, tier, frac, stable, missing_locs_sampled,
                   narrow_results, broad_results, output, stats, wiki_rows, call, wiki_cache>>

\* One round of the loop over missing_locations.
DbpediaLookupOne ==
    /\ pc = "q_dbpedia_loop"
    /\ Len(dbpedia_rows) < Len(missing_locs)
    /\ LET loc == missing_locs[Len(dbpedia_rows) + 1]
       IN  \E d \in query_dbpedia(loc) :
              dbpedia_rows' = Append(dbpedia_rows, [location |-> loc, date |-> d])
    /\ UNCHANGED <<df, pc, tier, frac, stable, missing_locs, missing_locs_sampled,
                   narrow_results, broad_results, output, stats, wiki_rows, call, wiki_cache>>

\* query_dbpedia builds its query (SPARQLWrapper(endpoint), setQuery,
\* setReturnFormat) before its try block: an exception raised there leaves
\* query_dbpedia and run_dbpedia_approach, which has no handler.
DbpediaQueryError ==
    /\ pc = "q_dbpedia_loop"
    /\ Len(dbpedia_rows) < Len(missing_locs)
    /\ ~stable
    /\ pc' = "crashed"
    /\ UNCHANGED <<df, tier, frac, stable, missing_locs, missing_locs_sampled,
                   narrow_results, broad_results, output, stats, sequential, call, wiki_cache>>

\* df.merge(df_dbpedia, on="location", how="left") and the Final Date column.
DbpediaMerge ==
    /\ pc = "q_dbpedia_loop"
    /\ Len(dbpedia_rows) = Len(missing_locs)
    /\ dbpedia_rows # <<>>
    /\ LET joined == [i \in DOMAIN df.location |-> Joined(dbpedia_rows, df.location[i])]
       IN  df' = [df EXCEPT
                    !.dbpedia_date = joined,
                    !.FinalDate = [i \in DOMAIN joined |->
                                     MergeJoined(df.FinalDate[i], joined[i])]]
    /\ pc' = "q_save"
    /\ UNCHANGED <<tier, frac, stable, missing_locs, missing_locs_sampled,
                   narrow_results, broad_results, output, stats, sequential, call, wiki_cache>>

\* df.to_csv(final_output)
SaveSeq ==
    /\ pc = "q_save"
    /\ ToCsv("haunted_places_final.tsv")
    /\ pc' = "q_validate"
    /\ UNCHANGED <<df, tier, frac, stable, missing_locs, missing_locs_sampled,
                   narrow_results, broad_results, stats, sequential, call, wiki_cache>>

\* valid_recognized_count of validate_dates: datetime.strptime raises on a NaN
\* cell, and the handler then takes recognized_count.
ValidRecognizedCount4c(dates) ==
    IF \E i \in DOMAIN dates : dates[i] = NaNDate
    THEN RecognizedCount(dates)
    ELSE Cardinality({i \in DOMAIN dates :
                         /\ dates[i] # DEFAULT_DATE
                         /\ MIN_VALID_YEAR <= Year(dates[i])
                         /\ Year(dates[i]) <= MAX_VALID_YEAR})

\* validate_dates(df)
ValidateSeq ==
    /\ pc = "q_validate"
    /\ stats' = [total |-> Len(df.FinalDate),
                 recognized_count |-> RecognizedCount(df.FinalDate),
                 valid_recognized_count |-> ValidRecognizedCount4c(df.FinalDate)]
    /\ pc' = "q_done"
    /\ UNCHANGED <<df, tier, frac, stable, missing_locs, missing_locs_sampled,
                   narrow_results, broad_results, output, sequential, call, wiki_cache>>

NextSeq ==
    \/ ConvertSeq
    \/ KeyErrorDescription
    \/ ExtractSeq
    \/ KeyErrorLocation
    \/ WikiSelect
    \/ WikiLookupOne
    \/ WikiMerge
    \/ MergeKeyError
    \/ DbpediaSelect
    \/ DbpediaLookupOne
    \/ DbpediaQueryError
    \/ DbpediaMerge
    \/ SaveSeq
    \/ ValidateSeq

\* The pipeline of Q4fgh.py's step 4c over every table of NRows rows.
SpecSeq == InitSeq /\ [][NextSeq]_vars

\* Both pipelines.
NextPipelines == Next \/ NextSeq

SpecPipelines == (Init \/ InitSeq) /\ [][NextPipelines]_vars

\* Both ways into parallel_lookup: from main's two tiers and called directly.
NextCalls == Next \/ NextLookup

SpecCalls == (Init \/ InitLookup) /\ [][NextCalls]_vars

\* The variables of the lookups, the tiers and the reports, all at rest.
AtRest ==
    /\ tier = 1
    /\ frac = <<1, 1>>
    /\ stable = TRUE
    /\ missing_locs = <<>>
    /\ missing_locs_sampled = <<>>
    /\ locations = <<>>
    /\ max_workers = 1
    /\ fut = <<>>
    /\ results_map = <<>>
    /\ narrow_results = <<>>
    /\ broad_results = <<>>
    /\ wiki_cache = <<>>
    /\ output = <<>>
    /\ stats = <<>>
    /\ wiki_rows = <<>>
    /\ dbpedia_rows = <<>>

\* ------------------------------------------------ selection over every key
\* main of verifyparallel.py over tables whose locations include keys that
\* fail exactly one of the two tests of should_skip_location; every selected
\* key is looked up (SAMPLE_MISSING_FRAC = 1.0) in a Wikipedia that answers.
InitSelect ==
    /\ \E locs \in [1..NRows -> AllLocations] \cup {<<>>}, texts \in DescriptionColumns :
          df = [location |-> locs, description |-> texts, LocalDate |-> <<>>,
                NarrowWikiDate |-> <<>>, BroadWikiDate |-> <<>>, FinalDate |-> <<>>]
    /\ pc = "extract"
    /\ lookup_func = "narrow"
    /\ AtRest

SpecSelect == InitSelect /\ [][Next]_vars

\* ------------------------------------------- extraction over every text
\* A text as a list of date phrases between other words. A phrase is one of
\*   "ordinal"    "October 3rd, 1995"    "month_year"  "March 1995"
\*   "explicit"   "in 1995"              "bare"        "1995"
\*   "numeric"    "7/4/1995"
\* and ParseText gives what each matcher of the code finds in such a text.
MaxPhrases == 2
Years == {1600, 1799, 1800, 2024, 2025}
PhraseKinds == {"ordinal", "month_year", "explicit", "bare", "numeric"}

PhraseDate(kind, year) ==
    year * 10000 + (CASE kind = "ordinal" -> 1003
                      [] kind = "month_year" -> 301
                      [] kind = "numeric" -> 704
                      [] OTHER -> 101)

Phrases == {[kind |-> k, year |-> y, date |-> PhraseDate(k, y)] : k \in PhraseKinds, y \in Years}

\* The years pd.to_datetime(..., errors="coerce") can represent; NaT outside.
PandasMinYear == 1678
PandasMaxYear == 2261

RECURSIVE FirstOfKind(_, _)
\* re.search: the leftmost phrase of the kind, as a list of at most one.
FirstOfKind(phrases, kind) ==
    IF phrases = <<>> THEN <<>>
    ELSE IF phrases[1].kind = kind THEN <<phrases[1]>>
    ELSE FirstOfKind(Tail(phrases), kind)

\* Patterns 1 and 2: the leftmost match, if pd.to_datetime can convert it.
ToDatetime(match) ==
    IF match # <<>> /\ PandasMinYear <= match[1].year /\ match[1].year <= PandasMaxYear
    THEN <<match[1].date>> ELSE <<>>

RECURSIVE FirstBareYear(_)
\* Pattern 4, \b(1[8-9]\d{2}|20\d{2})\b: the leftmost such year, in any phrase.
FirstBareYear(phrases) ==
    IF phrases = <<>> THEN <<>>
    ELSE IF 1800 <= phrases[1].year /\ phrases[1].year <= 2099 THEN <<phrases[1].year>>
    ELSE FirstBareYear(Tail(phrases))

\* Pattern 3: the year of the leftmost "in/since/from YYYY".
ExplicitYear(match) == IF match # <<>> THEN <<match[1].year>> ELSE <<>>

\* datefinder finds every phrase, in text order; dateparser parses a text that
\* is one phrase and nothing else.
ParseText(phrases) ==
    [blank |-> FALSE,
     ordinal |-> ToDatetime(FirstOfKind(phrases, "ordinal")),
     month_year |-> ToDatetime(FirstOfKind(phrases, "month_year")),
     explicit_year |-> ExplicitYear(FirstOfKind(phrases, "explicit")),
     bare_year |-> FirstBareYear(phrases),
     df_dates |-> [i \in DOMAIN phrases |-> phrases[i].date],
     parsed |-> IF Len(phrases) = 1 THEN <<phrases[1].date>> ELSE <<>>]

Texts == {ParseText(p) : p \in ListsUpTo(Phrases, MaxPhrases)} \cup {BlankText}

\* Either pipeline at its start, over a table of one row with any description.
InitExtract ==
    /\ \E text \in Texts :
          \/ /\ df = [location |-> <<Millbrook>>, description |-> <<text>>,
                      LocalDate |-> <<>>, NarrowWikiDate |-> <<>>,
                      BroadWikiDate |-> <<>>, FinalDate |-> <<>>]
             /\ pc = "extract"
             /\ lookup_func = "narrow"
          \/ /\ df = [location |-> <<Millbrook>>, description |-> <<text>>,
                      HauntedPlacesDate |-> <<>>, wiki_date |-> <<>>,
                      dbpedia_date |-> <<>>, FinalDate |-> <<>>]
             /\ pc = "q_convert"
             /\ lookup_func = "wikipedia"
    /\ AtRest

NextExtract ==
    \/ ExtractLocal
    \/ ConvertSeq
    \/ ExtractSeq

\* The local extraction of both pipelines over every text of MaxPhrases phrases.
SpecExtract == InitExtract /\ [][NextExtract]_vars

\* The rule of Q4fgh.py's cascade that returns for the text (0: none does).
MatchedRule4c(text) ==
    IF text.blank THEN 0
    ELSE IF text.ordinal # <<>> THEN 1
    ELSE IF text.month_year # <<>> THEN 2
    ELSE IF text.explicit_year # <<>> THEN 3
    ELSE IF text.bare_year # <<>> THEN 4
    ELSE IF text.df_dates # <<>> THEN 5
    ELSE 0

\* verifyparallel.py's extract_date_from_text returns from one of its two
\* passes (and not from its last line).
FoundLocal(text) ==
    /\ ~text.blank
    /\ \/ FirstValid(Sorted(text.df_dates)) # <<>>
       \/ text.parsed # <<>> /\ validate_year_in_range(text.parsed[1])

\* ================================================================== claims
\* The futures of the current call whose lookup_func has been invoked for key k.
Invoked(k) == {i \in DOMAIN fut : fut[i].st # "pending" /\ RunOneArg(i) = k}
\* The futures of the current call that went to Wikipedia for key k.
Searched(k) == {i \in DOMAIN fut : fut[i].searched /\ RunOneArg(i) = k}
\* The rows whose date in the column the tier selects on is the default.
UnresolvedRows(k) ==
    {i \in DOMAIN PriorColumn : df.location[i] = k /\ PriorColumn[i] = DEFAULT_DATE}

\* C1: in one tier run of main, lookup_func is invoked, and Wikipedia searched,
\* at most once for each location key, however many unresolved rows share it.
C1_CacheSingleInvocation ==
    \A k \in Locations : Cardinality(Invoked(k)) <= 1 /\ Cardinality(Searched(k)) <= 1

\* C1 witness: a tier run has returned in which a key shared by two or more
\* unresolved rows was searched, once.
C1_Witness ==
    /\ pc = "ret"
    /\ \E k \in Locations :
          /\ Cardinality(UnresolvedRows(k)) >= 2
          /\ Cardinality(Searched(k)) = 1

\* C2: single-flight: a key is never searched externally by two workers of one
\* parallel_lookup call.
C2_SingleFlight == \A k \in Locations : Cardinality(Searched(k)) <= 1

\* C3: cache monotonicity: a resolved (non-default) entry of wiki_cache is never
\* changed by any step of any lookup.
C3_CacheMonotonic ==
    [][\A k \in DOMAIN wiki_cache :
          wiki_cache[k] # DEFAULT_DATE => wiki_cache'[k] = wiki_cache[k]]_vars

\* What the claim says the map holds for future i: the default when lookup_func
\* raised, the returned value otherwise.
Outcome(i) == IF fut[i].raised THEN DEFAULT_DATE ELSE fut[i].val

\* C4: failure isolation: when parallel_lookup returns, every submitted key has
\* an entry, and the entry is the outcome of a call made for that key: the
\* default where lookup_func raised, its own returned value otherwise.
C4_FailureIsolation ==
    pc = "ret" =>
        \A k \in Range(locations) :
            /\ k \in DOMAIN results_map
            /\ \E i \in DOMAIN fut : locations[i] = k /\ results_map[k] = Outcome(i)

\* C4 witness: a call has returned in which lookup_func raised for one key and
\* returned a date for another, each submitted once.
C4_Witness ==
    /\ pc = "ret"
    /\ Cardinality(Range(locations)) = Len(locations)
    /\ \E i, j \in DOMAIN fut :
          /\ fut[i].raised
          /\ results_map[locations[i]] = DEFAULT_DATE
          /\ ~fut[j].raised
          /\ fut[j].val # DEFAULT_DATE
          /\ results_map[locations[j]] = fut[j].val

\* C5: barrier: once parallel_lookup has returned, every future is finished and
\* taken, no lookup is in flight and every submitted key has an entry.
C5_Barrier ==
    pc # "pl" =>
        /\ \A i \in DOMAIN fut : fut[i].st = "done" /\ fut[i].collected
        /\ InProgress = {}
        /\ Range(locations) \subseteq DOMAIN results_map

\* C5 witness: a call over two or more locations has returned, and a worker of
\* it went to Wikipedia.
C5_Witness ==
    /\ pc = "ret"
    /\ Len(locations) >= 2
    /\ \E i \in DOMAIN fut : fut[i].searched

\* C6: bounded concurrency: the lookups in progress never number more than
\* max_workers, which is 10 in the narrow tier and 8 in the broad tier.
C6_BoundedConcurrency ==
    /\ Cardinality(InProgress) <= max_workers
    /\ pc = "pl" /\ tier = 1 => max_workers = MAX_WORKERS_NARROW
    /\ pc = "pl" /\ tier = 2 => max_workers = MAX_WORKERS_BROAD

\* C6 witness: the pool is full while a submitted future still waits.
C6_Witness ==
    /\ pc = "pl"
    /\ Cardinality(InProgress) = max_workers
    /\ \E i \in DOMAIN fut : fut[i].st = "pending"

\* The tier's result for a location: its entry, the default when it has none.
TierResult(results, location) ==
    IF location \in DOMAIN results THEN results[location] ELSE DEFAULT_DATE
\* The same for the rows list of a tier of Q4fgh.py.
RowsResult(rows, location) ==
    IF \E j \in DOMAIN rows : rows[j].location = location
    THEN (CHOOSE r \in Range(rows) : r.location = location).date
    ELSE DEFAULT_DATE
\* The merge rule: the prior date unless it is the default.
Merged(prior, result) == IF prior # DEFAULT_DATE THEN prior ELSE result
IsParallel == "NarrowWikiDate" \in DOMAIN df

\* C7: after each tier's merge every row's merged date is its prior date when
\* that is not the default, else the tier's result for the row's location (the
\* default when the tier has none); FinalDate is the value of the last merge.
C7_MergeRule ==
    /\ IsParallel /\ df.NarrowWikiDate # <<>> =>
          \A i \in DOMAIN df.location :
              df.NarrowWikiDate[i] =
                  Merged(df.LocalDate[i], TierResult(narrow_results, df.location[i]))
    /\ IsParallel /\ df.BroadWikiDate # <<>> =>
          \A i \in DOMAIN df.location :
              /\ df.BroadWikiDate[i] =
                     Merged(df.NarrowWikiDate[i], TierResult(broad_results, df.location[i]))
              /\ df.FinalDate[i] = df.BroadWikiDate[i]
    /\ ~IsParallel /\ pc = "q_dbpedia" =>
          \A i \in DOMAIN df.location :
              df.FinalDate[i] =
                  Merged(df.HauntedPlacesDate[i], RowsResult(wiki_rows, df.location[i]))
    /\ ~IsParallel /\ pc \in {"q_save", "q_done"} =>
          \A i \in DOMAIN df.location :
              df.FinalDate[i] =
                  Merged(Merged(df.HauntedPlacesDate[i], RowsResult(wiki_rows, df.location[i])),
                         RowsResult(dbpedia_rows, df.location[i]))

\* The most recent date column of the table d.
LatestDates(d) ==
    IF "NarrowWikiDate" \in DOMAIN d
    THEN IF d.BroadWikiDate # <<>> THEN d.BroadWikiDate
         ELSE IF d.NarrowWikiDate # <<>> THEN d.NarrowWikiDate
         ELSE d.LocalDate
    ELSE IF d.FinalDate # <<>> THEN d.FinalDate ELSE d.HauntedPlacesDate

\* C8: merge monotonicity: a row whose date is resolved (not the default) keeps
\* that date through every later step of either pipeline, and FinalDate, once
\* there is one, is that date.
C8_MergeMonotonic ==
    [][\A i \in DOMAIN LatestDates(df) :
          LatestDates(df)[i] # DEFAULT_DATE =>
              /\ LatestDates(df')[i] = LatestDates(df)[i]
              /\ df'.FinalDate # <<>> => df'.FinalDate[i] = LatestDates(df)[i]]_vars

\* C8 witness: the pipeline has merged both tiers, and a row resolved locally
\* kept its date although the broad tier returned another date for its key.
C8_Witness ==
    /\ pc = "stats"
    /\ \E i \in DOMAIN df.location :
          /\ df.LocalDate[i] # DEFAULT_DATE
          /\ df.location[i] \in DOMAIN broad_results
          /\ broad_results[df.location[i]] \notin {DEFAULT_DATE, df.LocalDate[i]}
          /\ df.FinalDate[i] = df.LocalDate[i]

\* The answers of a Wikipedia whose every search succeeds.
NarrowAnswer(k) == BestDate(NarrowLoop(k, 1, {}))
BroadAnswer(k) == BestDate(BroadDates(k, {}))
\* What the current tier's lookup of k returns then: the broad lookup returns
\* the cached narrow answer for a key the narrow tier looked up.
TierAnswer(k) ==
    IF tier = 1 THEN NarrowAnswer(k)
    ELSE IF k \in DOMAIN narrow_results THEN NarrowAnswer(k) ELSE BroadAnswer(k)
\* The merged date of row i for the sampled keys and their answers alone.
ExpectedMerge(prior, i) ==
    IF prior[i] # DEFAULT_DATE THEN prior[i]
    ELSE IF df.location[i] \in Range(missing_locs_sampled)
         THEN TierAnswer(df.location[i]) ELSE DEFAULT_DATE

\* C9: order independence: with a Wikipedia whose answer per query is fixed, in
\* whatever order the workers of a tier run and complete, the result map is the
\* map of the sampled keys to their answers and the merged rows are those this
\* map gives.
C9_OrderIndependence ==
    stable =>
        /\ pc = "ret" =>
              /\ DOMAIN results_map = Range(locations)
              /\ \A k \in Range(locations) : results_map[k] = TierAnswer(k)
        /\ pc = "merge" /\ tier = 1 =>
              /\ DOMAIN narrow_results = Range(missing_locs_sampled)
              /\ \A i \in DOMAIN df.location :
                    MergeDate(df.LocalDate[i], narrow_results, df.location[i])
                        = ExpectedMerge(df.LocalDate, i)
        /\ pc = "stats" =>
              \A i \in DOMAIN df.location :
                  /\ df.BroadWikiDate[i] = ExpectedMerge(df.NarrowWikiDate, i)
                  /\ df.FinalDate[i] = ExpectedMerge(df.NarrowWikiDate, i)

\* C9 witness: with fixed answers, a tier of two keys has returned the two
\* answers, one of them a date.
C9_Witness ==
    /\ stable
    /\ pc = "ret"
    /\ Len(locations) = 2
    /\ \A i \in DOMAIN fut : fut[i].searched
    /\ \E k \in Range(locations) : results_map[k] # DEFAULT_DATE

\* C10: the sampled keys are selected keys, none twice, floor(|keys| * fraction)
\* of them, and all the selected keys when the fraction is 1.
C10_SamplerSize ==
    pc = "lookup" =>
        /\ Range(missing_locs_sampled) \subseteq Range(missing_locs)
        /\ Cardinality(Range(missing_locs_sampled)) = Len(missing_locs_sampled)
        /\ Len(missing_locs_sampled) * frac[2] <= Len(missing_locs) * frac[1]
        /\ Len(missing_locs) * frac[1] < (Len(missing_locs_sampled) + 1) * frac[2]
        /\ frac[1] = frac[2] => Range(missing_locs_sampled) = Range(missing_locs)

\* C10 witness: one of two selected keys has been sampled at fraction 1/2.
C10_Witness ==
    /\ pc = "lookup"
    /\ frac = <<1, 2>>
    /\ Len(missing_locs) = 2
    /\ Len(missing_locs_sampled) = 1

\* The column of locally extracted dates of either pipeline.
LocalColumn == IF IsParallel THEN df.LocalDate ELSE df.HauntedPlacesDate

\* The date the cascade of the specification gives from its four pattern rules:
\* the date of the first rule, in priority order, that matches the text.
PatternDate(text) ==
    IF text.ordinal # <<>> THEN text.ordinal
    ELSE IF text.month_year # <<>> THEN text.month_year
    ELSE IF text.explicit_year # <<>> THEN <<text.explicit_year[1] * 10000 + 101>>
    ELSE IF text.bare_year # <<>> THEN <<text.bare_year[1] * 10000 + 101>>
    ELSE <<>>

\* C12: extraction cascade priority: the extracted date of a text is the date of
\* the highest-priority rule that matches it (full ordinal date, Month Year,
\* in/since/from YYYY, bare year, then the general parse), or the default when
\* that date is out of range; a text with a full ordinal date in range and a
\* bare year yields the full date.
C12_CascadePriority ==
    \A i \in DOMAIN LocalColumn :
        LET text == df.description[i]
            result == LocalColumn[i]
        IN  /\ text.blank => result = DEFAULT_DATE
            /\ ~text.blank /\ PatternDate(text) # <<>> =>
                  \/ result = PatternDate(text)[1]
                  \/ result = DEFAULT_DATE /\ ~validate_year_in_range(PatternDate(text)[1])
            /\ ~text.blank /\ PatternDate(text) = <<>> =>
                  result \in Range(text.df_dates) \cup Range(text.parsed) \cup {DEFAULT_DATE}
            /\ /\ ~text.blank
               /\ text.ordinal # <<>>
               /\ text.bare_year # <<>>
               /\ validate_year_in_range(text.ordinal[1])
               => result = text.ordinal[1]

\* C13: range enforcement: every extracted date is the default or a date whose
\* year is within MIN_VALID_YEAR..MAX_VALID_YEAR; a text whose only date is of
\* 1799 or 2025 yields the default, and one of 1800 or 2024 a date of that year.
C13_RangeEnforcement ==
    \A i \in DOMAIN LocalColumn :
        LET text == df.description[i]
            result == LocalColumn[i]
        IN  /\ result = DEFAULT_DATE \/ validate_year_in_range(result)
            /\ Len(text.df_dates) = 1 /\ Year(text.df_dates[1]) \in {1799, 2025} =>
                  result = DEFAULT_DATE
            /\ Len(text.df_dates) = 1 /\ Year(text.df_dates[1]) \in {1800, 2024} =>
                  Year(result) = Year(text.df_dates[1])

\* C14: sentinel distinguishability: an extraction that returns a date it found
\* never returns the default date; a row holding the default is a row for which
\* no rule found a date.
C14_SentinelDistinct ==
    \A i \in DOMAIN LocalColumn :
        LocalColumn[i] = DEFAULT_DATE =>
            IF IsParallel THEN ~FoundLocal(df.description[i])
            ELSE MatchedRule4c(df.description[i]) = 0

\* The keys the claim describes for the tier being selected: the locations of
\* the rows whose prior date is the default, without the missing ones and
\* without those of fewer than 2 tokens or shorter than MIN_LOCATION_LENGTH.
ExpectedKeys ==
    {df.location[i] : i \in {j \in DOMAIN PriorColumn : PriorColumn[j] = DEFAULT_DATE}}
        \ ({NaN} \cup {k \in AllLocations :
                          TokenCount(k) < 2 \/ StrippedLen(k) < MIN_LOCATION_LENGTH})

\* C11: KeySelector: the keys a tier selects are exactly the distinct, non-empty
\* locations of the rows whose prior date is the default, minus the keys of
\* fewer than 2 tokens or of stripped length below MIN_LOCATION_LENGTH, each
\* once; nothing is selected when every row is resolved.
C11_KeySelector ==
    pc = "sample" =>
        /\ Range(missing_locs) = ExpectedKeys
        /\ Cardinality(Range(missing_locs)) = Len(missing_locs)
        /\ (\A i \in DOMAIN PriorColumn : PriorColumn[i] # DEFAULT_DATE) => missing_locs = <<>>

\* C11 witness: the broad tier has selected a key while unresolved rows with a
\* two-word short location and with a one-word long location were left out.
C11_Witness ==
    /\ pc = "sample"
    /\ tier = 2
    /\ missing_locs # <<>>
    /\ \E i, j \in DOMAIN df.location :
          /\ df.location[i] = ElmSt /\ PriorColumn[i] = DEFAULT_DATE
          /\ df.location[j] = Philadelphia /\ PriorColumn[j] = DEFAULT_DATE
          /\ {ElmSt, Philadelphia} \cap Range(missing_locs) = {}

\* A date or the default: a calendar date yyyy-mm-dd, never a missing value.
IsDate(d) ==
    /\ d # NaNDate
    /\ Year(d) >= 1
    /\ (d \div 100) % 100 \in 1..12
    /\ d % 100 \in 1..31

MissingColumn == df.description = <<>> \/ df.location = <<>>

\* C16: fail fast: in a run of a pipeline on an input that lacks the description
\* or the location column no adapter is ever called and nothing is ever written.
C16_FailFast ==
    MissingColumn /\ tier # 0 =>
        /\ fut = <<>>
        /\ wiki_cache = <<>>
        /\ wiki_rows = <<>>
        /\ dbpedia_rows = <<>>
        /\ output = <<>>

\* The date columns of a written table.
DateColumns(table) ==
    IF "NarrowWikiDate" \in DOMAIN table
    THEN {table.LocalDate, table.NarrowWikiDate, table.BroadWikiDate, table.FinalDate}
    ELSE {table.HauntedPlacesDate, table.wiki_date, table.dbpedia_date, table.FinalDate}

\* C17: output validity: in every file written, each cell of each date column
\* (local, tier 1, tier 2, final) is the default or a well-formed date.
C17_OutputValidity ==
    \A k \in DOMAIN output :
        \A column \in DateColumns(output[k].table) :
            \A i \in DOMAIN column : IsDate(column[i])

\* The keys that were handed to an adapter.
LookedUp ==
    (IF pc \in {"pl", "ret"} THEN Range(locations) ELSE {})
        \cup DOMAIN wiki_cache \cup DOMAIN narrow_results \cup DOMAIN broad_results
        \cup {wiki_rows[j].location : j \in DOMAIN wiki_rows}
        \cup {dbpedia_rows[j].location : j \in DOMAIN dbpedia_rows}

\* Every row of the key was resolved by the local extraction.
LocallyResolved(k) ==
    \A i \in DOMAIN LocalColumn : df.location[i] = k => LocalColumn[i] # DEFAULT_DATE

\* C18: no lookup for resolved rows: a key all of whose rows were resolved
\* locally is never handed to an adapter, the final date of a locally resolved
\* row is its local date, and a run over a table whose every row is locally
\* resolved does not abort.
C18_NoLookupForResolved ==
    ~MissingColumn /\ LocalColumn # <<>> /\ tier # 0 =>
        /\ \A k \in LookedUp : ~LocallyResolved(k)
        /\ df.FinalDate # <<>> =>
              \A i \in DOMAIN LocalColumn :
                  LocalColumn[i] # DEFAULT_DATE => df.FinalDate[i] = LocalColumn[i]
        /\ (\A i \in DOMAIN LocalColumn : LocalColumn[i] # DEFAULT_DATE) => pc # "crashed"

\* C19: validator: the recognized count is the number of rows whose final date
\* is not the default, the valid count the number of those whose year is within
\* MIN_VALID_YEAR..MAX_VALID_YEAR, so valid <= recognized <= total, and the
\* step that computes the statistics changes no row.
C19_Validator ==
    /\ [](stats # <<>> =>
            /\ stats.total = Len(df.FinalDate)
            /\ stats.recognized_count =
                  Cardinality({i \in DOMAIN df.FinalDate : df.FinalDate[i] # DEFAULT_DATE})
            /\ stats.valid_recognized_count =
                  Cardinality({i \in DOMAIN df.FinalDate :
                                  /\ df.FinalDate[i] # DEFAULT_DATE
                                  /\ Year(df.FinalDate[i]) >= MIN_VALID_YEAR
                                  /\ Year(df.FinalDate[i]) <= MAX_VALID_YEAR})
            /\ stats.valid_recognized_count <= stats.recognized_count
            /\ stats.recognized_count <= stats.total)
    /\ [][stats' # stats => df' = df]_vars

\* The dates the narrow lookup can take from query q of key k by the claim: the
\* dates of the summaries of the pages, not disambiguation pages, among the
\* first two results.
TopTwoDates(k, q) ==
    LET results == WikipediaSearch(generate_narrow_search_terms(k)[q])
    IN  {extract_date_from_text(results[j].summary) :
            j \in {n \in 1..2 : n <= Len(results) /\ results[n].kind = "page"}}
        \ {DEFAULT_DATE}

\* The answer of the narrow lookup by the claim when the searches of the
\* queries in down fail: the least date of the first query that yields one.
ShortCircuitAnswer(k, down) ==
    LET yielding == {q \in 1..5 : q \notin down /\ TopTwoDates(k, q) # {}}
    IN  IF yielding = {} THEN DEFAULT_DATE
        ELSE LET first == CHOOSE q \in yielding : \A r \in yielding : q <= r
             IN  CHOOSE d \in TopTwoDates(k, first) : \A e \in TopTwoDates(k, first) : d <= e

\* C20: narrow short-circuit: a narrow lookup that went to Wikipedia returns
\* the least of the dates of the first query, in the fixed order, that yields a
\* date among its top 2 results, and the default only when no query yields one.
C20_NarrowShortCircuit ==
    \A i \in DOMAIN fut :
        lookup_func = "narrow" /\ fut[i].searched /\ fut[i].st = "done" =>
            \E down \in Outages(5) : fut[i].val = ShortCircuitAnswer(RunOneArg(i), down)

\* C20 witness: with every search answering, the lookup of a key whose first
\* query has a date only in its third result, whose second query has two dates
\* and whose third query has an earlier one, returned the lesser date of the
\* second query.
C20_Witness ==
    /\ stable
    /\ lookup_func = "narrow"
    /\ \E i \in DOMAIN fut :
          /\ RunOneArg(i) = Millbrook
          /\ fut[i].searched
          /\ fut[i].st = "done"
          /\ fut[i].val = 18500101
          /\ TopTwoDates(Millbrook, 1) = {}
          /\ TopTwoDates(Millbrook, 2) = {19010101, 18500101}
          /\ TopTwoDates(Millbrook, 3) = {18010101}

\* The narrow merge has been applied to every row.
NarrowMerged ==
    /\ Len(df.NarrowWikiDate) = Len(df.location)
    /\ \A i \in DOMAIN df.location :
          df.NarrowWikiDate[i] = Merged(df.LocalDate[i], TierResult(narrow_results, df.location[i]))

\* C21: stage ordering: a worker runs only inside the scheduler stage, the
\* workers of the narrow tier run only before the narrow merge, and a broad
\* lookup exists only in the second tier, after every narrow worker has
\* completed and the narrow merge has been applied to all rows.
C21_StageOrdering ==
    /\ pc # "pl" => InProgress = {}
    /\ pc = "pl" /\ lookup_func = "narrow" => tier = 1 /\ df.NarrowWikiDate = <<>>
    /\ pc \in {"pl", "ret"} /\ lookup_func = "broad" => tier = 2 /\ NarrowMerged
    /\ tier = 2 => NarrowMerged

\* C21 witness: a broad worker is searching, after a narrow tier that looked up
\* keys and whose merge is in every row.
C21_Witness ==
    /\ pc = "pl"
    /\ tier = 2
    /\ lookup_func = "broad"
    /\ narrow_results # <<>>
    /\ NarrowMerged
    /\ \E i \in DOMAIN fut : fut[i].st = "searching"

\* C22: tier 2 fills tier-1 gaps: a broad lookup of a key that the narrow tier
\* looked up and left at the default goes to Wikipedia, and with a Wikipedia
\* that answers the rows of the key get the broad search's date as tier-2 date.
C22_TierTwoFillsGaps ==
    tier = 2 /\ lookup_func = "broad" =>
        /\ \A i \in DOMAIN fut :
              /\ fut[i].st = "done"
              /\ RunOneArg(i) \in DOMAIN narrow_results
              /\ narrow_results[RunOneArg(i)] = DEFAULT_DATE
              => fut[i].searched
        /\ stable /\ pc = "stats" =>
              \A i \in DOMAIN df.location :
                  /\ df.NarrowWikiDate[i] = DEFAULT_DATE
                  /\ df.location[i] \in DOMAIN narrow_results
                  /\ df.location[i] \in Range(missing_locs_sampled)
                  => df.BroadWikiDate[i] = BroadAnswer(df.location[i])

====
